---- MODULE Spec2Model ----
(***************************************************************************)
(* A model of the two scripts of microBM:                                  *)
(*   runscan.py       the benchmark driver (capture, runOnce, outputName,  *)
(*                    run, runAll)                                         *)
(*   generateText.py  the random text generator (chars, generateLine,     *)
(*                    generateFile)                                        *)
(*                                                                         *)
(* Text is a sequence of chunks (strings); where the code looks inside a   *)
(* text (replace, strip, split) the chunks are single characters.          *)
(* Characters of the generator are their code points (ord/chr).            *)
(***************************************************************************)
EXTENDS Integers, Sequences, FiniteSets, TLC

\* ------------------------------------------------------------------ bounds
\* repeats is 10 in runscan.py:31; the model runs fewer trials per thread count.
Repeats == 2
\* pre-existing report files carry sequence numbers drawn from 1..MaxPre
MaxPre == 3
\* one more disk layout: an unbroken run _1 .. _LongRun (two-digit suffix)
LongRun == 10
\* longest test name handed to outputName on its own (SpecName)
MaxNameLen == 3
\* generator inputs: 0..MaxLineLen characters per line, 0..MaxLines lines,
\* at most MaxChars characters in all
MaxLineLen == 2
MaxLines == 2
MaxChars == 2

Procs == {1, 2}

\* ------------------------------------------------------------ text helpers
Range(s) == {s[k] : k \in DOMAIN s}

Whitespace == {" ", "\n", "\t"}

RECURSIVE LStrip(_)
LStrip(s) ==
    IF s # <<>> /\ Head(s) \in Whitespace THEN LStrip(Tail(s)) ELSE s

RECURSIVE RStrip(_)
RStrip(s) ==
    IF s # <<>> /\ s[Len(s)] \in Whitespace
    THEN RStrip(SubSeq(s, 1, Len(s) - 1)) ELSE s

\* str.strip(): leading and trailing whitespace removed
Strip(s) == RStrip(LStrip(s))

RECURSIVE FirstToken(_)
FirstToken(s) ==
    IF s = <<>> \/ Head(s) \in Whitespace THEN <<>>
    ELSE <<Head(s)>> \o FirstToken(Tail(s))

\* str.split() without arguments: the maximal runs of non-whitespace
RECURSIVE Split(_)
Split(s) ==
    LET t == LStrip(s) IN
    IF t = <<>> THEN <<>>
    ELSE LET w == FirstToken(t) IN
         <<w>> \o Split(SubSeq(t, Len(w) + 1, Len(t)))

Digits == <<"0", "1", "2", "3", "4", "5", "6", "7", "8", "9">>

\* str(n) of a non-negative integer
RECURSIVE Str(_)
Str(n) ==
    IF n < 10 THEN <<Digits[n + 1]>>
    ELSE Str(n \div 10) \o <<Digits[(n % 10) + 1]>>

\* s.replace("__", "_"): one pass from the left over non-overlapping matches
RECURSIVE Replace(_)
Replace(s) ==
    IF Len(s) < 2 THEN s
    ELSE IF s[1] = "_" /\ s[2] = "_"
         THEN <<"_">> \o Replace(SubSeq(s, 3, Len(s)))
         ELSE <<s[1]>> \o Replace(Tail(s))

\* print(a1, ..., an): the arguments joined by single spaces, one line
RECURSIVE Emit(_)
Emit(args) ==
    IF Len(args) = 0 THEN <<>>
    ELSE IF Len(args) = 1 THEN args[1]
    ELSE args[1] \o <<" ">> \o Emit(Tail(args))

\* ------------------------------------------------------------- dictionary
\* res of run(): a dict, kept as the sequence of <<key, value>> in insertion
\* order (the order res.keys() iterates in)
DictHas(d, k) == \E j \in DOMAIN d : d[j][1] = k

DictGet(d, k) == d[CHOOSE j \in DOMAIN d : d[j][1] = k][2]

\* d[k] = v: an existing key keeps its place
DictSet(d, k, v) ==
    IF DictHas(d, k)
    THEN [j \in DOMAIN d |-> IF d[j][1] = k THEN <<k, v>> ELSE d[j]]
    ELSE Append(d, <<k, v>>)

\* a slip: the thread counts visited in reverse
RECURSIVE RowsMutant(_)
RowsMutant(d) ==
    IF d = <<>> THEN <<>>
    ELSE RowsMutant(Tail(d))
         \o [j \in DOMAIN d[1][2] |-> <<d[1][1], d[1][2][j]>>]

\* for t in res.keys(): for times in res[t]: the pairs <<t, times>> in order
RECURSIVE Rows(_)
Rows(d) ==
    IF d = <<>> THEN <<>>
    ELSE [j \in DOMAIN d[1][2] |-> <<d[1][1], d[1][2][j]>>]
         \o Rows(Tail(d))

\* ------------------------------------------------------- driver constants
dateString == <<"2", "0", "2", "6", "-", "1", "1", "-", "0", "2">>

searchRe == <<"[aA].*[eE].*[iI].*[oO].*[uU]">>

ScanImage == <<".", "/", "s">>
GrepImage == <<"g", "r", "e", "p">>

\* the test matrix of runscan.py:17-27 with fewer thread counts and modes:
\* a scan entry, then the grep baseline
CommandSets ==
    { << [image |-> ScanImage, threads |-> <<1, 2>>, args |-> << <<"p">> >>],
         [image |-> GrepImage, threads |-> <<1>>,
          args |-> << <<"-", "c">> >>] >>,
      << [image |-> ScanImage, threads |-> <<1>>,
          args |-> << <<"p">>, <<"q">> >>],
         [image |-> GrepImage, threads |-> <<1>>,
          args |-> << <<"-", "c">> >>] >> }

\* the matrix of the two-driver race: one entry, one mode
RaceCommands ==
    << [image |-> ScanImage, threads |-> <<1>>, args |-> << <<"p">> >>] >>

\* what the shell started by subprocess.run can leave on stderr, with the
\* way the benchmarked process ended.  /usr/bin/time -p writes
\* "real R\nuser U\nsys S\n" after the program's own diagnostics.
TimeOut(a, b, c) ==
    <<"r", "e", "a", "l", " ", a, "\n", "u", "s", "e", "r", " ", b, "\n",
      "s", "y", "s", " ", c, "\n">>

ProcOutcomes ==
    { [kind |-> "ok", err |-> TimeOut("1", "2", "3")],
      [kind |-> "ok", err |-> TimeOut("4", "5", "6")],
      [kind |-> "spawn_failed",
       err |-> <<"s", "h", ":", " ", "n", "o", "t", " ", "f", "o", "u",
                 "n", "d", "\n">>],
      [kind |-> "abnormal_exit",
       err |-> <<"s", "i", "g", " ", "1", "1", "\n">>
               \o TimeOut("0", "0", "0")] }

VARIABLES
    hostName,   \* runscan.py:6
    commands,   \* runscan.py:17
    disk,       \* the working directory: file name -> lines
    pc,         \* where each driver process is
    inv,        \* how many times the script has been started
    ci, ai, ti, ri,   \* run(): index of testDesc, arg, thread, i
    res,        \* run(): the dict res
    test,       \* outputName(): its argument
    nameBase, version, fname,   \* outputName(): its locals
    fbuf,       \* the lines printed to the open file f, not yet flushed
    wi,         \* run(): position in the row loop
    console,    \* the lines printed to standard output
    trials,     \* history: the trials of the current mode, in execution order
    opened,     \* history: the files opened for writing by this invocation
    snap,       \* history: the disk when the script was started again
    chars,      \* generateText.py:8
    gpc, lineLen, lines, l, line, stdout   \* generateFile() and its output

dvars == <<hostName, commands, disk, pc, inv, ci, ai, ti, ri, res, test,
           nameBase, version, fname, fbuf, wi, console, trials, opened, snap>>
gvars == <<chars, gpc, lineLen, lines, l, line, stdout>>
vars == <<dvars, gvars>>

\* --------------------------------------------------------------- the disk
EmptyDisk == [n \in {} |-> <<>>]

\* the directory d with file n holding the lines c
WriteFile(d, n, c) == [x \in DOMAIN d \cup {n} |-> IF x = n THEN c ELSE d[x]]

\* the lines new written from offset 0 over a file holding old
Overlay(new, old) == new \o SubSeq(old, Len(new) + 1, Len(old))

OldReport == << <<"old">> >>

\* ------------------------------------------------------------- outputName
\* runscan.py:53-54
NameBase(t) ==
    Replace(t \o <<"_">> \o hostName \o <<"_">> \o dateString)

\* runscan.py:55 and :59
FName(base, v) == base \o <<"_">> \o Str(v) \o <<".", "r", "e", "s">>

\* runscan.py:52-56: outputName(test) up to its loop
OutputNameEnter(p) ==
    /\ pc[p] = "name"
    /\ nameBase' = [nameBase EXCEPT ![p] = NameBase(test[p])]
    /\ fname' = [fname EXCEPT ![p] = FName(NameBase(test[p]), 1)]
    /\ version' = [version EXCEPT ![p] = 1]
    /\ pc' = [pc EXCEPT ![p] = "probe"]
    /\ UNCHANGED <<hostName, commands, disk, inv, ci, ai, ti, ri, res, test,
                   fbuf, wi, console, trials, opened, snap>>
    /\ UNCHANGED gvars

\* a slip: "if" where the code has "while": one increment at most
ProbeOnce(p) ==
    /\ pc[p] = "probe"
    /\ IF fname[p] \in DOMAIN disk
       THEN /\ version' = [version EXCEPT ![p] = @ + 1]
            /\ fname' = [fname EXCEPT
                           ![p] = FName(nameBase[p], version[p] + 1)]
       ELSE UNCHANGED <<version, fname>>
    /\ pc' = [pc EXCEPT ![p] = "open"]
    /\ UNCHANGED <<hostName, commands, disk, inv, ci, ai, ti, ri, res, test,
                   nameBase, fbuf, wi, console, trials, opened, snap>>
    /\ UNCHANGED gvars

\* a slip: os.path.exists(nameBase), a name no report file has
ProbeWrongName(p) ==
    /\ pc[p] = "probe"
    /\ IF nameBase[p] \in DOMAIN disk
       THEN /\ version' = [version EXCEPT ![p] = @ + 1]
            /\ fname' = [fname EXCEPT
                           ![p] = FName(nameBase[p], version[p] + 1)]
            /\ pc' = pc
       ELSE /\ pc' = [pc EXCEPT ![p] = "open"]
            /\ UNCHANGED <<version, fname>>
    /\ UNCHANGED <<hostName, commands, disk, inv, ci, ai, ti, ri, res, test,
                   nameBase, fbuf, wi, console, trials, opened, snap>>
    /\ UNCHANGED gvars

\* runscan.py:57-60: one test of os.path.exists(fname), then the loop body
\* or the return
Probe(p) ==
    /\ pc[p] = "probe"
    /\ IF fname[p] \in DOMAIN disk
       THEN /\ version' = [version EXCEPT ![p] = @ + 1]
            /\ fname' = [fname EXCEPT
                           ![p] = FName(nameBase[p], version[p] + 1)]
            /\ pc' = pc
       ELSE /\ pc' = [pc EXCEPT ![p] = "open"]
            /\ UNCHANGED <<version, fname>>
    /\ UNCHANGED <<hostName, commands, disk, inv, ci, ai, ti, ri, res, test,
                   nameBase, fbuf, wi, console, trials, opened, snap>>
    /\ UNCHANGED gvars

\* ------------------------------------------------------ capture / runOnce
\* runscan.py:34-44
Command(image, arg, threads) ==
    <<"OMP_NUM_THREADS=">> \o Str(threads) \o <<" /usr/bin/time -p ">>
    \o image \o <<" ">> \o arg \o <<" \"">> \o searchRe
    \o <<"\" < large.txt">>

\* runscan.py:10: what capture(cmd) prints
CaptureLine(cmd) == Emit(<< <<"*** ">>, cmd >>)

\* runscan.py:72
TrialLine(image, arg, thread) ==
    Emit(<< <<"*** ">>, image, <<" ">>, arg, <<" thread ">>, Str(thread) >>)

\* runscan.py:45-46 with capture (14-15): the exit status is not looked at,
\* stderr comes back stripped
RunOnceResult(o) == Strip(o.err)

\* runscan.py:69-73: one pass of the body of "for i in range(repeats)", with
\* res[thread] = [] before the first pass of a thread count and the loop
\* bookkeeping after it; after the last trial of the mode the with statement
\* begins by calling outputName(image + "_" + arg)
RunOnce(p) ==
    /\ pc[p] = "trial"
    /\ LET c == commands[ci[p]]
           image == c.image
           arg == c.args[ai[p]]
           thread == c.threads[ti[p]]
           res0 == IF ri[p] = 0 THEN DictSet(res[p], thread, <<>>)
                   ELSE res[p]
       IN \E o \in ProcOutcomes :
            LET ret == RunOnceResult(o) IN
            /\ res' = [res EXCEPT ![p] =
                         DictSet(res0, thread,
                                 Append(DictGet(res0, thread), ret))]
            /\ console' = [console EXCEPT ![p] =
                             @ \o << TrialLine(image, arg, thread),
                                     CaptureLine(Command(image, arg,
                                                         thread)) >>]
            /\ trials' = [trials EXCEPT ![p] =
                            (IF ti[p] = 1 /\ ri[p] = 0 THEN <<>> ELSE @)
                            \o << [thread |-> thread, kind |-> o.kind,
                                   ret |-> ret] >>]
            /\ IF ri[p] + 1 < Repeats
               THEN /\ ri' = [ri EXCEPT ![p] = @ + 1]
                    /\ UNCHANGED <<ti, pc, test>>
               ELSE IF ti[p] < Len(c.threads)
               THEN /\ ti' = [ti EXCEPT ![p] = @ + 1]
                    /\ ri' = [ri EXCEPT ![p] = 0]
                    /\ UNCHANGED <<pc, test>>
               ELSE /\ pc' = [pc EXCEPT ![p] = "name"]
                    /\ test' = [test EXCEPT ![p] = image \o <<"_">> \o arg]
                    /\ UNCHANGED <<ti, ri>>
    /\ UNCHANGED <<hostName, commands, disk, inv, ci, ai, nameBase, version,
                   fname, fbuf, wi, opened, snap>>
    /\ UNCHANGED gvars

\* ------------------------------------------------------------ the report
\* runscan.py:75-80
HeaderLines(image, arg) ==
    << <<"Scan time">>,
       IF image = GrepImage THEN Emit(<<image, <<" ">>, arg>>)
       ELSE Emit(<<arg>>),
       <<"Threads, Time, User Time, System Time">> >>

\* runscan.py:84-94, toks being (r, real, u, user, s, sys)
RowLine(t, toks) ==
    Emit(<< Str(t), <<", ">>, Strip(toks[2]), <<"s, ">>, Strip(toks[4]),
            <<"s, ">>, Strip(toks[6]), <<"s">> >>)

\* runscan.py:74-80: open(fname, "w") creates or truncates the file; the
\* three header lines go to the file object's buffer
OpenFile(p) ==
    /\ pc[p] = "open"
    /\ disk' = WriteFile(disk, fname[p], <<>>)
    /\ fbuf' = [fbuf EXCEPT ![p] =
                  HeaderLines(commands[ci[p]].image,
                              commands[ci[p]].args[ai[p]])]
    /\ wi' = [wi EXCEPT ![p] = 1]
    /\ opened' = [opened EXCEPT ![p] =
                    Append(@, [inv |-> inv[p], ci |-> ci[p], ai |-> ai[p],
                               fname |-> fname[p]])]
    /\ pc' = [pc EXCEPT ![p] = "write"]
    /\ UNCHANGED <<hostName, commands, inv, ci, ai, ti, ri, res, test,
                   nameBase, version, fname, console, trials, snap>>
    /\ UNCHANGED gvars

\* a slip: the parsing failure caught inside the loop, the row skipped
WriteRowSkip(p) ==
    /\ pc[p] = "write"
    /\ wi[p] <= Len(Rows(res[p]))
    /\ LET row == Rows(res[p])[wi[p]]
           toks == Split(row[2])
       IN IF Len(toks) = 6
          THEN fbuf' = [fbuf EXCEPT ![p] = Append(@, RowLine(row[1], toks))]
          ELSE UNCHANGED fbuf
    /\ wi' = [wi EXCEPT ![p] = @ + 1]
    /\ UNCHANGED <<hostName, commands, disk, pc, inv, ci, ai, ti, ri, res, test,
                   nameBase, version, fname, console, trials, opened, snap>>
    /\ UNCHANGED gvars

\* a slip: the file opened without "with": the exception leaves the buffered
\* lines unwritten
WriteRowNoFlush(p) ==
    /\ pc[p] = "write"
    /\ wi[p] <= Len(Rows(res[p]))
    /\ LET row == Rows(res[p])[wi[p]]
           toks == Split(row[2])
       IN IF Len(toks) = 6
          THEN /\ fbuf' = [fbuf EXCEPT ![p] = Append(@, RowLine(row[1], toks))]
               /\ wi' = [wi EXCEPT ![p] = @ + 1]
               /\ UNCHANGED <<disk, pc>>
          ELSE /\ pc' = [pc EXCEPT ![p] = "failed"]
               /\ UNCHANGED <<disk, fbuf, wi>>
    /\ UNCHANGED <<hostName, commands, inv, ci, ai, ti, ri, res, test,
                   nameBase, version, fname, console, trials, opened, snap>>
    /\ UNCHANGED gvars

\* runscan.py:81-94: one pass of the row loop.  A captured output that does
\* not unpack into 6 tokens raises ValueError: the with statement closes the
\* file (the buffer is flushed) and the exception leaves run() and runAll().
WriteRow(p) ==
    /\ pc[p] = "write"
    /\ wi[p] <= Len(Rows(res[p]))
    /\ LET row == Rows(res[p])[wi[p]]
           toks == Split(row[2])
       IN IF Len(toks) = 6
          THEN /\ fbuf' = [fbuf EXCEPT ![p] = Append(@, RowLine(row[1], toks))]
               /\ wi' = [wi EXCEPT ![p] = @ + 1]
               /\ UNCHANGED <<disk, pc>>
          ELSE /\ disk' = [disk EXCEPT ![fname[p]] = Overlay(fbuf[p], @)]
               /\ fbuf' = [fbuf EXCEPT ![p] = <<>>]
               /\ pc' = [pc EXCEPT ![p] = "failed"]
               /\ UNCHANGED wi
    /\ UNCHANGED <<hostName, commands, inv, ci, ai, ti, ri, res, test,
                   nameBase, version, fname, console, trials, opened, snap>>
    /\ UNCHANGED gvars

\* runscan.py:94 -> 67 -> 98: the with statement ends (the file is flushed
\* and closed), then the next arg, the next testDesc, or the end of runAll()
CloseFile(p) ==
    /\ pc[p] = "write"
    /\ wi[p] > Len(Rows(res[p]))
    /\ disk' = [disk EXCEPT ![fname[p]] = Overlay(fbuf[p], @)]
    /\ fbuf' = [fbuf EXCEPT ![p] = <<>>]
    /\ res' = [res EXCEPT ![p] = <<>>]
    /\ ti' = [ti EXCEPT ![p] = 1]
    /\ ri' = [ri EXCEPT ![p] = 0]
    /\ IF ai[p] < Len(commands[ci[p]].args)
       THEN /\ ai' = [ai EXCEPT ![p] = @ + 1]
            /\ pc' = [pc EXCEPT ![p] = "trial"]
            /\ UNCHANGED ci
       ELSE IF ci[p] < Len(commands)
       THEN /\ ci' = [ci EXCEPT ![p] = @ + 1]
            /\ ai' = [ai EXCEPT ![p] = 1]
            /\ pc' = [pc EXCEPT ![p] = "trial"]
       ELSE /\ pc' = [pc EXCEPT ![p] = "done"]
            /\ UNCHANGED <<ci, ai>>
    /\ UNCHANGED <<hostName, commands, inv, test, nameBase, version, fname,
                   wi, console, trials, opened, snap>>
    /\ UNCHANGED gvars

\* runscan.py:102: the script is started a second time after a sweep that
\* completed
Reinvoke(p) ==
    /\ pc[p] = "done"
    /\ inv[p] < 2
    /\ inv' = [inv EXCEPT ![p] = @ + 1]
    /\ pc' = [pc EXCEPT ![p] = "trial"]
    /\ ci' = [ci EXCEPT ![p] = 1]
    /\ ai' = [ai EXCEPT ![p] = 1]
    /\ console' = [console EXCEPT ![p] = <<>>]
    /\ snap' = disk
    /\ UNCHANGED <<hostName, commands, disk, ti, ri, res, test, nameBase,
                   version, fname, fbuf, wi, trials, opened>>
    /\ UNCHANGED gvars

\* ----------------------------------------------------------- generateText
Ord_a == 97
Ord_z == 122
Ord_A == 65
Ord_Z == 90
Ord_0 == 48
Ord_9 == 57
Newline == 10

\* range(a, b): a, a+1, ..., b-1
PyRange(a, b) == [k \in 1..(b - a) |-> a + k - 1]

\* generateText.py:8-11, chr(i) kept as the code point i
CharsValue ==
    PyRange(Ord_a, Ord_z) \o PyRange(Ord_A, Ord_Z) \o PyRange(Ord_0, Ord_9)
    \o <<32, 45, 46, 95>>

\* a slip: range(lines + 1)
GenerateFileOneMore ==
    /\ gpc = "file"
    /\ IF l <= lines
       THEN gpc' = "line"
       ELSE gpc' = "done"
    /\ UNCHANGED <<chars, lineLen, lines, l, line, stdout>>
    /\ UNCHANGED dvars

\* generateText.py:20: the head of "for l in range(lines)"
GenerateFile ==
    /\ gpc = "file"
    /\ IF l < lines
       THEN gpc' = "line"
       ELSE gpc' = "done"
    /\ UNCHANGED <<chars, lineLen, lines, l, line, stdout>>
    /\ UNCHANGED dvars

\* generateText.py:15: one random.choice(chars) of the list comprehension
Choose ==
    /\ gpc = "line"
    /\ Len(line) < lineLen
    /\ \E c \in Range(chars) : line' = Append(line, c)
    /\ UNCHANGED <<chars, gpc, lineLen, lines, l, stdout>>
    /\ UNCHANGED dvars

\* generateText.py:15-17 and :21: the chosen characters are joined, the line
\* is returned and printed with its newline
PrintLine ==
    /\ gpc = "line"
    /\ Len(line) = lineLen
    /\ stdout' = stdout \o line \o <<Newline>>
    /\ line' = <<>>
    /\ l' = l + 1
    /\ gpc' = "file"
    /\ UNCHANGED <<chars, lineLen, lines>>
    /\ UNCHANGED dvars

\* ------------------------------------------------------- initial states
DriverIdle ==
    /\ hostName = <<>>
    /\ commands = <<>>
    /\ disk = EmptyDisk
    /\ pc = [p \in Procs |-> "idle"]
    /\ inv = [p \in Procs |-> 0]
    /\ ci = [p \in Procs |-> 1]
    /\ ai = [p \in Procs |-> 1]
    /\ ti = [p \in Procs |-> 1]
    /\ ri = [p \in Procs |-> 0]
    /\ res = [p \in Procs |-> <<>>]
    /\ test = [p \in Procs |-> <<>>]
    /\ nameBase = [p \in Procs |-> <<>>]
    /\ version = [p \in Procs |-> 0]
    /\ fname = [p \in Procs |-> <<>>]
    /\ fbuf = [p \in Procs |-> <<>>]
    /\ wi = [p \in Procs |-> 1]
    /\ console = [p \in Procs |-> <<>>]
    /\ trials = [p \in Procs |-> <<>>]
    /\ opened = [p \in Procs |-> <<>>]
    /\ snap = EmptyDisk

GeneratorIdle ==
    /\ chars = <<>>
    /\ gpc = "idle"
    /\ lineLen = 0
    /\ lines = 0
    /\ l = 0
    /\ line = <<>>
    /\ stdout = <<>>

\* the driver processes of `started` are at the top of runAll()
DriverInit(started) ==
    /\ pc = [p \in Procs |-> IF p \in started THEN "trial" ELSE "idle"]
    /\ inv = [p \in Procs |-> IF p \in started THEN 1 ELSE 0]
    /\ ci = [p \in Procs |-> 1]
    /\ ai = [p \in Procs |-> 1]
    /\ ti = [p \in Procs |-> 1]
    /\ ri = [p \in Procs |-> 0]
    /\ res = [p \in Procs |-> <<>>]
    /\ test = [p \in Procs |-> <<>>]
    /\ nameBase = [p \in Procs |-> <<>>]
    /\ version = [p \in Procs |-> 0]
    /\ fname = [p \in Procs |-> <<>>]
    /\ fbuf = [p \in Procs |-> <<>>]
    /\ wi = [p \in Procs |-> 1]
    /\ console = [p \in Procs |-> <<>>]
    /\ trials = [p \in Procs |-> <<>>]
    /\ opened = [p \in Procs |-> <<>>]
    /\ snap = EmptyDisk

\* the report files base_k.res, k in S, left by earlier runs
Reports(base, S) ==
    [n \in {FName(base, k) : k \in S} |-> OldReport]

\* one driver, one sweep; the directory is empty or holds an earlier report
\* of the first mode
Init ==
    /\ hostName = <<"h">>
    /\ commands \in CommandSets
    /\ \E S \in {{}, {1}} :
         disk = Reports(NameBase(ScanImage \o <<"_", "p">>), S)
    /\ DriverInit({1})
    /\ GeneratorIdle

Next ==
    \/ RunOnce(1)
    \/ OutputNameEnter(1)
    \/ Probe(1)
    \/ OpenFile(1)
    \/ WriteRow(1)
    \/ CloseFile(1)

Spec == Init /\ [][Next]_vars

\* the script run again and again in one directory
TwiceCommands ==
    << [image |-> ScanImage, threads |-> <<1>>, args |-> << <<"p">> >>],
       [image |-> GrepImage, threads |-> <<1>>,
        args |-> << <<"-", "c">> >>] >>

InitTwice ==
    /\ hostName = <<"h">>
    /\ commands = TwiceCommands
    /\ \E S \in {{}, {2}} :
         disk = Reports(NameBase(ScanImage \o <<"_", "p">>), S)
    /\ DriverInit({1})
    /\ GeneratorIdle

NextTwice ==
    \/ RunOnce(1)
    \/ OutputNameEnter(1)
    \/ Probe(1)
    \/ OpenFile(1)
    \/ WriteRow(1)
    \/ CloseFile(1)
    \/ Reinvoke(1)

SpecTwice == InitTwice /\ [][NextTwice]_vars

\* two drivers started in the same directory, their steps interleaved
InitRace ==
    /\ hostName = <<"h">>
    /\ commands = RaceCommands
    /\ disk = EmptyDisk
    /\ DriverInit(Procs)
    /\ GeneratorIdle

NextRace ==
    \E p \in Procs :
        \/ RunOnce(p)
        \/ OutputNameEnter(p)
        \/ Probe(p)
        \/ OpenFile(p)
        \/ WriteRow(p)
        \/ CloseFile(p)

SpecRace == InitRace /\ [][NextRace]_vars

\* outputName(test) called on its own
NameStrings == UNION {[1..n -> {"a", "_"}] : n \in 1..MaxNameLen}

HostNames == {<<>>, <<"h">>}

PreVersions == (SUBSET (1..MaxPre)) \cup {1..LongRun}

InitName ==
    /\ hostName \in HostNames
    /\ commands = <<>>
    /\ \E t \in NameStrings, S \in PreVersions :
         /\ test = [p \in Procs |-> IF p = 1 THEN t ELSE <<>>]
         /\ disk = WriteFile(Reports(NameBase(t), S),
                             FName(NameBase(t) \o <<"x">>, 1), OldReport)
    /\ pc = [p \in Procs |-> IF p = 1 THEN "name" ELSE "idle"]
    /\ inv = [p \in Procs |-> 0]
    /\ ci = [p \in Procs |-> 1]
    /\ ai = [p \in Procs |-> 1]
    /\ ti = [p \in Procs |-> 1]
    /\ ri = [p \in Procs |-> 0]
    /\ res = [p \in Procs |-> <<>>]
    /\ nameBase = [p \in Procs |-> <<>>]
    /\ version = [p \in Procs |-> 0]
    /\ fname = [p \in Procs |-> <<>>]
    /\ fbuf = [p \in Procs |-> <<>>]
    /\ wi = [p \in Procs |-> 1]
    /\ console = [p \in Procs |-> <<>>]
    /\ trials = [p \in Procs |-> <<>>]
    /\ opened = [p \in Procs |-> <<>>]
    /\ snap = EmptyDisk
    /\ GeneratorIdle

NextName ==
    \/ OutputNameEnter(1)
    \/ Probe(1)

SpecName == InitName /\ [][NextName]_vars

\* generateFile(lineLen, lines) on non-negative arguments
InitGen ==
    /\ chars = CharsValue
    /\ gpc = "file"
    /\ lineLen \in 0..MaxLineLen
    /\ lines \in 0..MaxLines
    /\ lineLen * lines <= MaxChars
    /\ l = 0
    /\ line = <<>>
    /\ stdout = <<>>
    /\ DriverIdle

NextGen ==
    \/ GenerateFile
    \/ Choose
    \/ PrintLine

SpecGen == InitGen /\ [][NextGen]_vars

\* ------------------------------------------------------------ the claims
ResSuffix(k) == <<"_">> \o Str(k) \o <<".", "r", "e", "s">>

HasSuffix(s, suf) ==
    /\ Len(s) >= Len(suf)
    /\ SubSeq(s, Len(s) - Len(suf) + 1, Len(s)) = suf

DropSuffix(s, suf) == SubSeq(s, 1, Len(s) - Len(suf))

HasDoubleUnderscore(s) ==
    \E k \in 1..(Len(s) - 1) : s[k] = "_" /\ s[k + 1] = "_"

\* C1 (SpecName): when outputName returns, the name is base_k.res for the
\* smallest k >= 1 whose file is not on disk, so it names no existing file.
C1_SmallestUnusedName ==
    \A p \in Procs :
        pc[p] = "open" =>
            /\ fname[p] \notin DOMAIN disk
            /\ \E k \in 1..(Cardinality(DOMAIN disk) + 1) :
                 /\ fname[p] = nameBase[p] \o ResSuffix(k)
                 /\ \A j \in 1..(k - 1) :
                      (nameBase[p] \o ResSuffix(j)) \in DOMAIN disk

\* with _1 and _2 on disk and _3 free, outputName has returned _3
C1_Witness ==
    /\ pc[1] = "open"
    /\ (nameBase[1] \o ResSuffix(1)) \in DOMAIN disk
    /\ (nameBase[1] \o ResSuffix(2)) \in DOMAIN disk
    /\ fname[1] = nameBase[1] \o ResSuffix(3)

\* C6 (SpecName): the part of the returned name before "_<seq>.res" holds
\* no "__".
C6_NoDoubleUnderscore ==
    \A p \in Procs :
        pc[p] = "open" =>
            ~HasDoubleUnderscore(DropSuffix(fname[p], ResSuffix(version[p])))

\* C2 (Spec): a trial whose process could not be spawned or ended abnormally
\* comes back from runOnce as the empty string, and the console holds a
\* failure notice (a line that is not one of the "*** " progress lines).
C2_FailureYieldsEmpty ==
    \A p \in Procs :
        \A j \in DOMAIN trials[p] :
            trials[p][j].kind # "ok" =>
                /\ trials[p][j].ret = <<>>
                /\ \E n \in DOMAIN console[p] : console[p][n][1] # "*** "

\* the mode whose file was closed last, and that moment
JustClosed(p) ==
    /\ opened[p] # <<>>
    /\ \/ pc[p] = "done"
       \/ pc[p] = "trial" /\ ti[p] = 1 /\ ri[p] = 0

LastOpened(p) == opened[p][Len(opened[p])]

Distinct(T) == \A a, b \in DOMAIN T : a # b => T[a] # T[b]

\* C3 (Spec): when run() has finished a mode whose thread counts T are
\* distinct, the mode has exactly one report file; it holds "Scan time", the
\* sub-header, the column header and |T| * Repeats rows, row j being the
\* j-th trial of the mode, and the rows go through T in declared order,
\* Repeats consecutive rows per thread count.
C3_ReportLayout ==
    \A p \in Procs :
        JustClosed(p) =>
            LET e == LastOpened(p)
                c == commands[e.ci]
                T == c.threads
                n == Len(T) * Repeats
                file == disk[e.fname]
            IN Distinct(T) =>
                 /\ Cardinality({j \in DOMAIN opened[p] :
                                   /\ opened[p][j].ci = e.ci
                                   /\ opened[p][j].ai = e.ai}) = 1
                 /\ Len(trials[p]) = n
                 /\ Len(file) = 3 + n
                 /\ file[1] = <<"Scan time">>
                 /\ file[2] = (IF c.image = GrepImage
                               THEN c.image \o <<" ", " ", " ">> \o c.args[e.ai]
                               ELSE c.args[e.ai])
                 /\ file[3] = <<"Threads, Time, User Time, System Time">>
                 /\ \A j \in 1..n :
                      LET t == T[((j - 1) \div Repeats) + 1]
                          toks == Split(trials[p][j].ret)
                      IN /\ trials[p][j].thread = t
                         /\ file[3 + j] =
                              Str(t) \o <<" ", ", ", " ">> \o toks[2]
                              \o <<" ", "s, ", " ">> \o toks[4]
                              \o <<" ", "s, ", " ">> \o toks[6]
                              \o <<" ", "s">>

\* threads (1,2): the mode is finished and its trials gave different times
C3_Witness ==
    /\ JustClosed(1)
    /\ commands[LastOpened(1).ci].threads = <<1, 2>>
    /\ trials[1][1].ret # trials[1][2].ret
    /\ trials[1][2].ret # trials[1][3].ret
    /\ Len(disk[LastOpened(1).fname]) = 3 + 2 * Repeats

Malformed(t) == Len(Split(t.ret)) # 6

\* C5 (Spec): a mode with a trial whose output does not split into 6 tokens
\* is never completed (no later mode or test configuration is started, the
\* sweep does not reach its end), and once the failure has been raised
\* nothing more is run, written or opened.
C5_MalformedTerminatesSweep ==
    /\ [](\A p \in Procs :
            (\E j \in DOMAIN trials[p] : Malformed(trials[p][j])) =>
                /\ pc[p] # "done"
                /\ ~(pc[p] = "trial" /\ ti[p] = 1 /\ ri[p] = 0))
    /\ [][\A p \in Procs :
            pc[p] = "failed" =>
                /\ pc'[p] = "failed"
                /\ disk' = disk
                /\ fbuf'[p] = fbuf[p]
                /\ opened'[p] = opened[p]
                /\ trials'[p] = trials[p]
                /\ console'[p] = console[p]]_vars

\* the sweep has failed in the first test configuration; a later one exists
\* and has no report
C5_Witness ==
    /\ pc[1] = "failed"
    /\ ci[1] = 1
    /\ Len(commands) = 2
    /\ Len(opened[1]) = 1

\* the rows of the trials before the first malformed one
RECURSIVE RowsBeforeFailure(_)
RowsBeforeFailure(ts) ==
    IF ts = <<>> \/ Malformed(ts[1]) THEN <<>>
    ELSE LET toks == Split(ts[1].ret) IN
         << Str(ts[1].thread) \o <<" ", ", ", " ">> \o toks[2]
            \o <<" ", "s, ", " ">> \o toks[4]
            \o <<" ", "s, ", " ">> \o toks[6] \o <<" ", "s">> >>
         \o RowsBeforeFailure(Tail(ts))

\* C10 (Spec): from the call of outputName on, all |threads| * Repeats trials
\* of the mode have been run, and until the file is opened the mode has no
\* report; when the sweep has failed on a malformed output, the first
\* malformed one being the k-th of the mode, the report is on disk with its
\* three header lines and the k-1 rows of the trials before it.
C10_WriteAfterAllTrials ==
    \A p \in Procs :
        LET c == commands[ci[p]]
            mine == {j \in DOMAIN opened[p] :
                       /\ opened[p][j].ci = ci[p]
                       /\ opened[p][j].ai = ai[p]}
        IN /\ pc[p] \in {"name", "probe", "open", "write", "failed"} =>
                Len(trials[p]) = Len(c.threads) * Repeats
           /\ pc[p] \in {"trial", "name", "probe", "open"} => mine = {}
           /\ pc[p] = "failed" =>
                /\ mine # {}
                /\ fname[p] \in DOMAIN disk
                /\ \E j \in DOMAIN trials[p] : Malformed(trials[p][j])
                /\ disk[fname[p]] =
                     << <<"Scan time">>,
                        IF c.image = GrepImage
                        THEN c.image \o <<" ", " ", " ">> \o c.args[ai[p]]
                        ELSE c.args[ai[p]],
                        <<"Threads, Time, User Time, System Time">> >>
                     \o RowsBeforeFailure(trials[p])

\* the third output of a mode with threads (1,2) was the first malformed one:
\* the report holds the header lines and two rows
C10_Witness ==
    /\ pc[1] = "failed"
    /\ commands[ci[1]].threads = <<1, 2>>
    /\ ~Malformed(trials[1][1])
    /\ ~Malformed(trials[1][2])
    /\ Malformed(trials[1][3])
    /\ Len(disk[fname[1]]) = 5

\* the entries of opened for invocation n and mode (c, a)
OpenedBy(p, n, c, a) ==
    {j \in DOMAIN opened[p] :
       /\ opened[p][j].inv = n
       /\ opened[p][j].ci = c
       /\ opened[p][j].ai = a}

\* C4 (SpecTwice): the directory held no report files at the start (every
\* file on disk was opened by the driver) and two sweeps have completed:
\* every (executable, mode) pair has one file of the first sweep, ending in
\* _1.res, and one of the second, the same name with _2.res; both are on
\* disk and the first is as the first sweep left it.
C4_TwoSweepsTwoFiles ==
    (/\ pc[1] = "done"
     /\ inv[1] = 2
     /\ DOMAIN disk \subseteq {opened[1][j].fname : j \in DOMAIN opened[1]})
    => \A c \in DOMAIN commands : \A a \in DOMAIN commands[c].args :
         /\ Cardinality(OpenedBy(1, 1, c, a)) = 1
         /\ Cardinality(OpenedBy(1, 2, c, a)) = 1
         /\ \A j1 \in OpenedBy(1, 1, c, a), j2 \in OpenedBy(1, 2, c, a) :
              LET f1 == opened[1][j1].fname
                  f2 == opened[1][j2].fname
              IN /\ HasSuffix(f1, ResSuffix(1))
                 /\ HasSuffix(f2, ResSuffix(2))
                 /\ DropSuffix(f1, ResSuffix(1)) = DropSuffix(f2, ResSuffix(2))
                 /\ f1 # f2
                 /\ f1 \in DOMAIN disk /\ f2 \in DOMAIN disk
                 /\ f1 \in DOMAIN snap /\ disk[f1] = snap[f1]
                 /\ Len(disk[f1]) > 3 /\ Len(disk[f2]) > 3

\* two completed sweeps from an empty directory, four files, and the two
\* sweeps measured different times for the first mode
C4_Witness ==
    /\ pc[1] = "done"
    /\ inv[1] = 2
    /\ Cardinality(DOMAIN disk) = 4
    /\ DOMAIN disk = {opened[1][j].fname : j \in DOMAIN opened[1]}
    /\ disk[opened[1][1].fname] # disk[opened[1][3].fname]

\* C9 (SpecRace): no driver opens for writing a name that is on disk at the
\* moment of the open.
C9_NeverOpensExisting ==
    [][\A p \in Procs :
         (pc[p] = "open" /\ pc'[p] = "write") => fname[p] \notin DOMAIN disk]_vars

\* the declared alphabet: a-z, A-Z, 0-9, space, hyphen, period, underscore
DeclaredAlphabet ==
    (Ord_a..Ord_z) \cup (Ord_A..Ord_Z) \cup (Ord_0..Ord_9)
    \cup {32, 45, 46, 95}

\* C7 (SpecGen): the characters generateLine samples from are exactly the 66
\* declared ones, and the output holds no other character (but the newline
\* that ends a line).
C7_DeclaredAlphabet ==
    /\ Cardinality(DeclaredAlphabet) = 66
    /\ Range(chars) = DeclaredAlphabet
    /\ Range(stdout) \subseteq DeclaredAlphabet \cup {Newline}

\* the lines of an output stream, each ended by a newline
RECURSIVE OutputLines(_, _)
OutputLines(s, cur) ==
    IF s = <<>> THEN (IF cur = <<>> THEN <<>> ELSE <<cur>>)
    ELSE IF Head(s) = Newline THEN <<cur>> \o OutputLines(Tail(s), <<>>)
    ELSE OutputLines(Tail(s), Append(cur, Head(s)))

\* C8 (SpecGen): when generateFile(lineLen, lines) has returned, the output
\* is exactly `lines` lines of exactly lineLen characters each.
C8_LinesAndLengths ==
    gpc = "done" =>
        LET out == OutputLines(stdout, <<>>) IN
        /\ Len(out) = lines
        /\ \A k \in DOMAIN out : Len(out[k]) = lineLen
        /\ Len(stdout) = lines * (lineLen + 1)

\* two lines of one character each have been printed
C8_Witness ==
    /\ gpc = "done"
    /\ lines = 2
    /\ lineLen = 1
    /\ Len(stdout) = 4

====
